---------------------------- MODULE Spec2Model ----------------------------
(***************************************************************************)
(* LineSearchTool (lab4/utils.py): step-size selection along a fixed       *)
(* search direction, by one of the strategies Constant, Armijo, Wolfe      *)
(* (with its zoom refinement) and Best.                                    *)
(*                                                                         *)
(* Numbers.  A step size is a dyadic rational m / 2^e, kept in lowest      *)
(* terms; halving, doubling and taking a midpoint are exact on these, as   *)
(* they are on binary floating point in the range the search visits.       *)
(* Oracle values are integers.  Products with c1, c2 and the direction     *)
(* are compared exactly, by cross-multiplication; the rounding of a        *)
(* floating-point product is not modelled.                                 *)
(*                                                                         *)
(* Oracle.  The oracle is the external collaborator: func(x) gives f(x),   *)
(* func_directional(p, d) gives f(p), grad_directional(p, d) gives the     *)
(* directional derivative grad f(p) . d, a real, returned as a numeric     *)
(* scalar that has a .dot method.  The model is one-dimensional: the       *)
(* direction is a single rational component d_k.  The oracle is a pure     *)
(* function, so its values at the starting point are fixed for a call and  *)
(* its values at a step size are drawn when that step size is first        *)
(* visited.                                                                *)
(***************************************************************************)
EXTENDS Integers, Sequences, FiniteSets, TLC

\* ------------------------------------------------------------------ bounds

\* oracle function values range over -MaxPhi .. MaxPhi
MaxPhi == 2
\* oracle directional derivatives range over -MaxGrad .. MaxGrad
MaxGrad == 2
\* iterations of the Wolfe doubling loop and of the zoom loop that are explored
MaxIter == 3
\* iterations of the Armijo loop that are explored
MaxArmijoIter == 46

\* ------------------------------------------------------- program constants

\* "alpha < 1e-12": 1e-12 = 1 / (2^MinStepPow10 * 5^MinStepPow10)
MinStepPow10 == 12

\* -------------------------------------------------------- dyadic rationals

RECURSIVE Norm(_, _)
\* m / 2^e in lowest terms
Norm(m, e) ==
    IF m = 0 THEN [m |-> 0, e |-> 0]
    ELSE IF e > 0 /\ m % 2 = 0 THEN Norm(m \div 2, e - 1)
    ELSE [m |-> m, e |-> e]

Dy(m, e) == Norm(m, e)

Max2(a, b) == IF a >= b THEN a ELSE b

Abs(v) == IF v < 0 THEN -v ELSE v

RECURSIVE Shr(_, _)
\* floor(v / 2^n), without forming 2^n
Shr(v, n) == IF n = 0 THEN v ELSE Shr(v \div 2, n - 1)

\* a <= b on dyadic rationals
DyLeq(a, b) ==
    LET E == Max2(a.e, b.e)
    IN  a.m * 2^(E - a.e) <= b.m * 2^(E - b.e)

\* a lies in [min(lo, hi), max(lo, hi)]
Between(a, lo, hi) ==
    \/ DyLeq(lo, a) /\ DyLeq(a, hi)
    \/ DyLeq(hi, a) /\ DyLeq(a, lo)

\* an optional step size: None, or a dyadic rational
None == [some |-> FALSE, m |-> 0, e |-> 0]

Some(a) == [some |-> TRUE, m |-> a.m, e |-> a.e]

Val(o) == [m |-> o.m, e |-> o.e]

\* --------------------------------------------------------- input domains

Methods == {"Wolfe", "Armijo", "Constant", "Best"}

MethodNames == Methods \cup {"Unknown"}

\* c1: the default 1e-4 and a large value, as numerator and denominator
C1Vals == {[num |-> 1, den |-> 10000], [num |-> 1, den |-> 2]}

\* c2: the default 0.9
C2Vals == {[num |-> 9, den |-> 10]}

\* alpha_0: the default 1.0, and 4.0
Alpha0Vals == {Dy(1, 0), Dy(4, 0)}

\* c, the constant step: 0.5
CVals == {Dy(1, 1)}

\* the direction's component: -1, 1/2 or 1
DirVals == {[num |-> -1, den |-> 1], [num |-> 1, den |-> 2], [num |-> 1, den |-> 1]}

\* the caller's previous_alpha: absent, 1.0 or 2.0
HintVals == {None, Some(Dy(1, 0)), Some(Dy(2, 0))}

PhiVals == (-MaxPhi) .. MaxPhi

\* what func(x_k) may report; the tests read phi_alpha and phi_0 only through
\* their difference, so one value stands for all
Phi0Vals == {0}

GradVals == (-MaxGrad) .. MaxGrad

\* what minimize_directional may report: absent, or (step, value)
MinimizeVals ==
    {[some |-> FALSE, step |-> Dy(0, 0), value |-> 0]} \cup
    {[some |-> TRUE, step |-> s, value |-> v] :
        s \in {Dy(7, 1), Dy(1, 0), Dy(0, 0)}, v \in {0, -MaxPhi}}

\* ------------------------------------------------------------------ state

VARIABLES
    method,          \* self._method
    c1, c2,          \* self.c1, self.c2
    alpha_0,         \* self.alpha_0
    c,               \* self.c
    d_k,             \* the direction's component
    previous_alpha,  \* the argument previous_alpha; the Wolfe loop reassigns it
    phi_0,           \* oracle.func(x_k)
    dphi_0,          \* oracle.grad_directional(x_k, d_k)
    pc,              \* "start", "armijo", "wolfe", "zoom", "done"
    alpha,           \* the local alpha
    alpha_low,       \* zoom's alpha_low
    alpha_high,      \* zoom's alpha_high
    phi_alpha,       \* oracle.func_directional(x_k + alpha d_k, d_k)
    dphi_alpha,      \* oracle.grad_directional(x_k + alpha d_k, d_k)
    minres,          \* what oracle.minimize_directional(x_k, d_k) reported
    result,          \* how the call ended
    calls,           \* oracle calls made so far
    k,               \* completed iterations of the Armijo / Wolfe loop
    zk,              \* completed iterations of the zoom loop
    zoom_site        \* the line of the call that entered zoom (0: none)

vars == <<method, c1, c2, alpha_0, c, d_k, previous_alpha, phi_0, dphi_0, pc,
          alpha, alpha_low, alpha_high, phi_alpha, dphi_alpha, minres,
          result, calls, k, zk, zoom_site>>

config == <<method, c1, c2, alpha_0, c, d_k, phi_0, dphi_0>>

Pending == [kind |-> "pending", alpha |-> Dy(0, 0)]

Returned(a) == [kind |-> "alpha", alpha |-> a]

ReturnedNone == [kind |-> "None", alpha |-> Dy(0, 0)]

Raised(err) == [kind |-> err, alpha |-> Dy(0, 0)]

Init ==
    /\ method \in MethodNames
    /\ c1 \in C1Vals
    /\ c2 \in C2Vals
    /\ alpha_0 \in Alpha0Vals
    /\ c \in CVals
    /\ d_k \in DirVals
    /\ previous_alpha \in HintVals
    /\ phi_0 \in Phi0Vals
    /\ dphi_0 \in GradVals
    /\ pc = "start"
    /\ alpha = Dy(0, 0)
    /\ alpha_low = None
    /\ alpha_high = Dy(0, 0)
    /\ phi_alpha = 0
    /\ dphi_alpha = 0
    /\ minres = [some |-> FALSE, step |-> Dy(0, 0), value |-> 0]
    /\ result = Pending
    /\ calls = 0
    /\ k = 0
    /\ zk = 0
    /\ zoom_site = 0

\* ---------------------------------------------------- the tests of the code

\* oracle.grad_directional(p, d_k).dot(d_k): the oracle's scalar g times the
\* direction, a rational
GradDot(g, d) == [num |-> g * d.num, den |-> d.den]

\* the oracle's scalar g as it stands
Scalar(g) == [num |-> g, den |-> 1]

\* phi <= phi0 + cc1 * a * s, for a rational slope s
SufficientDecrease(phi, phi0, cc1, a, s) ==
    (phi - phi0) * cc1.den * s.den <= Shr(cc1.num * a.m * s.num, a.e)

\* abs(g) <= -cc2 * g0, for rationals g and g0
Curvature(g, g0, cc2) ==
    Abs(g.num) * g0.den * cc2.den <= -(cc2.num * g0.num * g.den)

\* a slip in the test of line 80: alpha < 0
BelowMinStepNegative(a) == a.m < 0

\* alpha < 1e-12
BelowMinStep(a) ==
    \/ a.m = 0
    \/ /\ a.e > MinStepPow10
       /\ Shr(a.m * 5^MinStepPow10, a.e - MinStepPow10) = 0

\* alpha /= 2.0
Halve(a) == Norm(a.m, a.e + 1)

\* 2 * alpha
Double(a) == Norm(2 * a.m, a.e)

\* a slip in line 98: the factor 0.5 left out
MidSum(lo, hi) ==
    LET E == Max2(lo.e, hi.e)
    IN  Norm(lo.m * 2^(E - lo.e) + hi.m * 2^(E - hi.e), E)

\* 0.5 * (alpha_low + alpha_high)
Mid(lo, hi) ==
    LET E == Max2(lo.e, hi.e)
    IN  Norm(lo.m * 2^(E - lo.e) + hi.m * 2^(E - hi.e), E + 1)

\* a slip in lines 41-42: the final else falls back to a strategy
StrategyFallback(meth) == IF meth \in Methods THEN meth ELSE "Armijo"

\* line_search's dispatch on self._method
Strategy(meth) == IF meth \in Methods THEN meth ELSE "ValueError"

\* a slip in line 92: result[1], the minimum's value, is returned
BestResultValue(res) ==
    IF res.some THEN Returned([m |-> res.value, e |-> 0]) ELSE ReturnedNone

\* best_line_search's result from what minimize_directional reported
BestResult(res) == IF res.some THEN Returned(res.step) ELSE ReturnedNone

\* phi_alpha(alpha_low): phi_alpha is a number, and calling a number raises
CallNumber(v) == "TypeError"

\* ---------------------------------------------------------------- actions

\* line_search with method 'Wolfe': wolfe_line_search up to its loop
LineSearchWolfe ==
    /\ pc = "start"
    /\ Strategy(method) = "Wolfe"
    /\ alpha' = alpha_0
    /\ pc' = "wolfe"
    /\ UNCHANGED <<config, previous_alpha, alpha_low, alpha_high, phi_alpha,
                   dphi_alpha, minres, result, calls, k, zk, zoom_site>>

\* line_search with method 'Armijo': armijo_line_search up to its loop
LineSearchArmijo ==
    /\ pc = "start"
    /\ Strategy(method) = "Armijo"
    /\ alpha' = alpha_0
    /\ pc' = "armijo"
    /\ UNCHANGED <<config, previous_alpha, alpha_low, alpha_high, phi_alpha,
                   dphi_alpha, minres, result, calls, k, zk, zoom_site>>

\* line_search with method 'Constant': constant_line_search
LineSearchConstant ==
    /\ pc = "start"
    /\ Strategy(method) = "Constant"
    /\ result' = Returned(c)
    /\ pc' = "done"
    /\ UNCHANGED <<config, previous_alpha, alpha, alpha_low, alpha_high,
                   phi_alpha, dphi_alpha, minres, calls, k, zk, zoom_site>>

\* line_search with method 'Best': best_line_search
LineSearchBest ==
    /\ pc = "start"
    /\ Strategy(method) = "Best"
    /\ \E res \in MinimizeVals :
          /\ minres' = res
          /\ result' = BestResult(res)
    /\ calls' = calls + 1
    /\ pc' = "done"
    /\ UNCHANGED <<config, previous_alpha, alpha, alpha_low, alpha_high,
                   phi_alpha, dphi_alpha, k, zk, zoom_site>>

\* line_search with any other method: raise ValueError
LineSearchUnknown ==
    /\ pc = "start"
    /\ Strategy(method) = "ValueError"
    /\ result' = Raised("ValueError")
    /\ pc' = "done"
    /\ UNCHANGED <<config, previous_alpha, alpha, alpha_low, alpha_high,
                   phi_alpha, dphi_alpha, minres, calls, k, zk, zoom_site>>

\* one iteration of armijo_line_search's loop
ArmijoStep ==
    /\ pc = "armijo"
    /\ k < MaxArmijoIter
    /\ \E p \in PhiVals :
          /\ phi_alpha' = p
          /\ IF SufficientDecrease(p, phi_0, c1, alpha, GradDot(dphi_0, d_k))
             THEN /\ result' = Returned(alpha)
                  /\ pc' = "done"
                  /\ alpha' = alpha
                  /\ k' = k
             ELSE IF BelowMinStep(alpha)
             THEN /\ result' = ReturnedNone
                  /\ pc' = "done"
                  /\ alpha' = alpha
                  /\ k' = k
             ELSE /\ alpha' = Halve(alpha)
                  /\ pc' = "armijo"
                  /\ result' = result
                  /\ k' = k + 1
    /\ calls' = calls + 3
    /\ UNCHANGED <<config, previous_alpha, alpha_low, alpha_high, dphi_alpha,
                   minres, zk, zoom_site>>

\* the call self.zoom(oracle, x_k, d_k, alpha, previous_alpha, c1, c2) made
\* from line `site`: alpha_high is alpha, alpha_low is previous_alpha
EnterZoom(site) ==
    /\ alpha_high' = alpha
    /\ alpha_low' = previous_alpha
    /\ zoom_site' = site
    /\ pc' = "zoom"
    /\ UNCHANGED <<alpha, previous_alpha, result, k>>

\* one iteration of wolfe_line_search's loop
WolfeStep ==
    /\ pc = "wolfe"
    /\ k < MaxIter
    /\ \E p \in PhiVals :
          /\ phi_alpha' = p
          /\ IF \/ ~SufficientDecrease(p, phi_0, c1, alpha, GradDot(dphi_0, d_k))
                \/ (p >= phi_0 /\ alpha.m > 0)
             THEN /\ EnterZoom(56)
                  /\ dphi_alpha' = dphi_alpha
                  /\ calls' = calls + 3
             ELSE \E r \in GradVals :
                  /\ dphi_alpha' = r
                  /\ calls' = calls + 5
                  /\ IF Curvature(GradDot(r, d_k), GradDot(dphi_0, d_k), c2)
                     THEN /\ result' = Returned(alpha)
                          /\ pc' = "done"
                          /\ UNCHANGED <<alpha, previous_alpha, alpha_low,
                                         alpha_high, zoom_site, k>>
                     ELSE IF GradDot(r, d_k).num >= 0
                     THEN EnterZoom(64)
                     ELSE /\ previous_alpha' = Some(alpha)
                          /\ alpha' = Double(alpha)
                          /\ k' = k + 1
                          /\ UNCHANGED <<pc, result, alpha_low, alpha_high,
                                         zoom_site>>
    /\ UNCHANGED <<config, minres, zk>>

\* the oracle is a function: asked again at the step size it was last asked
\* at, it reports the same values
SameAnswers(a, p, r) ==
    a = alpha =>
        /\ p = phi_alpha
        /\ (zoom_site = 64 \/ zk > 0) => r = dphi_alpha

\* one iteration of zoom's loop.  Line 98 adds alpha_low to alpha_high, which
\* raises TypeError when alpha_low is None.  Line 104 is reached when the
\* first test of line 103 fails; it calls phi_alpha, a number, which raises
\* TypeError, so lines 106-111 are never reached.
ZoomStep ==
    /\ pc = "zoom"
    /\ zk < MaxIter
    /\ IF ~alpha_low.some
       THEN /\ result' = Raised("TypeError")
            /\ pc' = "done"
            /\ UNCHANGED <<alpha, alpha_high, phi_alpha, dphi_alpha, calls, zk>>
       ELSE \E p \in PhiVals, r \in GradVals :
            LET a == Mid(Val(alpha_low), alpha_high)
            IN  /\ SameAnswers(a, p, r)
                /\ alpha' = a
                /\ phi_alpha' = p
                /\ dphi_alpha' = r
                /\ calls' = calls + 4
                /\ IF ~SufficientDecrease(p, phi_0, c1, a, GradDot(dphi_0, d_k))
                   THEN /\ alpha_high' = a
                        /\ zk' = zk + 1
                        /\ UNCHANGED <<pc, result>>
                   ELSE /\ result' = Raised(CallNumber(p))
                        /\ pc' = "done"
                        /\ UNCHANGED <<alpha_high, zk>>
    /\ UNCHANGED <<config, previous_alpha, alpha_low, minres, k, zoom_site>>

Next ==
    \/ LineSearchWolfe
    \/ LineSearchArmijo
    \/ LineSearchConstant
    \/ LineSearchBest
    \/ LineSearchUnknown
    \/ ArmijoStep
    \/ WolfeStep
    \/ ZoomStep

Spec == Init /\ [][Next]_vars

\* ----------------------------------------------------------------- claims

\* C1: with a recognized method, a call that completes returns a step size
\* or None; it never ends in a raised error.
C1_KnownMethodNeverRaises ==
    (pc = "done" /\ method \in Methods) => result.kind \in {"alpha", "None"}

\* C2: for a descent direction, a step returned by the Wolfe strategy
\* satisfies sufficient decrease and the curvature condition, both taken with
\* the directional derivatives phi'(0) and phi'(alpha).
C2_WolfeReturnsStrongWolfe ==
    (pc = "done" /\ method = "Wolfe" /\ result.kind = "alpha" /\ dphi_0 < 0) =>
        /\ SufficientDecrease(phi_alpha, phi_0, c1, result.alpha, Scalar(dphi_0))
        /\ Curvature(Scalar(dphi_alpha), Scalar(dphi_0), c2)

\* C3: a step returned by the Armijo strategy satisfies
\* phi(alpha) <= phi(0) + c1 * alpha * phi'(0), phi'(0) being the directional
\* derivative at the starting point.
C3_ArmijoReturnsSufficientDecrease ==
    (pc = "done" /\ method = "Armijo" /\ result.kind = "alpha") =>
        SufficientDecrease(phi_alpha, phi_0, c1, result.alpha, Scalar(dphi_0))

\* ceil(log2(1e12)): 2^-40 < 1e-12 < 2^-39
MinStepLog2 == 40

RECURSIVE Log2(_)
\* log2 of a power of two
Log2(n) == IF n <= 1 THEN 0 ELSE 1 + Log2(n \div 2)

\* log2(alpha_0 / 1e-12), rounded up, for alpha_0 a power of two
HalvingBound == MinStepLog2 + Log2(alpha_0.m) - alpha_0.e

\* C4: the Armijo loop halves at most log2(alpha_0 / 1e-12) (rounded up)
\* times; it ends with a step that passed its test or with None, and with
\* None exactly when the step has been halved down below 1e-12.
C4_ArmijoTerminates ==
    method = "Armijo" =>
        /\ k <= HalvingBound
        /\ pc = "done" =>
              /\ result.kind \in {"alpha", "None"}
              /\ result.kind = "None" => k = HalvingBound
              /\ result.kind = "alpha" =>
                    SufficientDecrease(phi_alpha, phi_0, c1, result.alpha,
                                       GradDot(dphi_0, d_k))

C4_Witness ==
    /\ method = "Armijo"
    /\ pc = "done"
    /\ result.kind = "None"
    /\ alpha_0 = Dy(4, 0)
    /\ k = 42

\* C5: a Wolfe search whose doubling loop or zoom loop has run MaxIter
\* iterations has ended, returning None.
C5_WolfeReturnsNoneOnExhaustion ==
    (method = "Wolfe" /\ (k >= MaxIter \/ zk >= MaxIter)) =>
        (pc = "done" /\ result.kind = "None")

\* C6: the first step size evaluated by the Armijo and the Wolfe strategy is
\* previous_alpha when it is given, and alpha_0 when it is None.
C6_StartsAtPreviousAlpha ==
    (pc \in {"armijo", "wolfe"} /\ k = 0) =>
        alpha = IF previous_alpha.some THEN Val(previous_alpha) ELSE alpha_0

\* C7: with an unrecognized method the call raises ValueError, enters no
\* strategy and makes no oracle call.
C7_UnknownMethodRaises ==
    method \notin Methods =>
        /\ calls = 0
        /\ pc \in {"start", "done"}
        /\ pc = "done" => result.kind = "ValueError"

C7_Witness ==
    /\ method = "Unknown"
    /\ pc = "done"
    /\ result.kind = "ValueError"
    /\ calls = 0

\* C8: every midpoint zoom produces lies between the alpha_low and the
\* alpha_high it was produced from.
C8_ZoomMidpointInBracket ==
    [][(pc = "zoom" /\ alpha_low.some) =>
           Between(alpha', Val(alpha_low), alpha_high)]_vars

C8_Witness ==
    /\ pc = "zoom"
    /\ zk >= 2
    /\ alpha_low.some
    /\ Val(alpha_low) # alpha_high
    /\ alpha = alpha_high
    /\ DyLeq(alpha, Val(alpha_low))

\* C9: the Best strategy makes the one call minimize_directional and returns
\* the step of the pair it reports, or None when it reports none.
C9_BestDelegates ==
    (pc = "done" /\ method = "Best") =>
        /\ calls = 1
        /\ minres.some => result = Returned(minres.step)
        /\ ~minres.some => result = ReturnedNone

C9_Witness ==
    /\ pc = "done"
    /\ method = "Best"
    /\ minres.some
    /\ minres.step = Dy(7, 1)
    /\ minres.value # 0
    /\ result.kind = "alpha"
    /\ result.alpha = Dy(7, 1)
    /\ calls = 1

\* C10: the call of zoom at line 56 is not made on the first iteration when
\* sufficient decrease holds at alpha_0; on a later iteration its bracket is
\* (the previous iteration's alpha, the current alpha).
C10_NoZoomOnFirstIteration ==
    (pc = "zoom" /\ zk = 0 /\ zoom_site = 56) =>
        /\ k = 0 =>
              ~SufficientDecrease(phi_alpha, phi_0, c1, alpha, Scalar(dphi_0))
        /\ k > 0 => (alpha_low = Some(Halve(alpha)) /\ alpha_high = alpha)

=============================================================================
